---- MODULE Spec2Model ----
(***************************************************************************)
(* Device Control API (src/main.py): a FastAPI facade over the OS master   *)
(* volume, mute flag, display-0 brightness and the default camera.         *)
(* Every handler is modelled as the sequence of library calls it makes;    *)
(* sync handlers run on the server's worker threads, so the calls of two   *)
(* requests may interleave.                                                *)
(*                                                                         *)
(* Units: the scalar volume is counted in steps of 0.002 (VolMax = 1.0),   *)
(* the brightness in percent, the wall clock in whole seconds.              *)
(***************************************************************************)
EXTENDS Integers, Sequences, FiniteSets, TLC

VARIABLES
    WINDOWS_LIBS_AVAILABLE, \* module-level flag, set once at import
    volume,                 \* OS master volume scalar
    muted,                  \* OS mute flag
    brightness,             \* OS brightness of display 0
    dirExists,              \* whether captured_images/ exists on disk
    files,                  \* files on disk: set of <<name, frame>>
    now,                    \* wall clock, in whole seconds
    openHandles,            \* capture-device handles opened and not released
    pc,                     \* per worker: the call its handler is about to make
    handler,                \* per worker: the handler it runs (or ran last)
    current,                \* per worker: the handler's local `current`
    camera,                 \* per worker: state of the handler's local `camera`
    frame,                  \* per worker: the handler's local `frame`
    resp,                   \* per worker: the response of its last request
    initial,                \* the OS levels when the process started
    overlapped              \* some request began while another was in flight

vars == <<WINDOWS_LIBS_AVAILABLE, volume, muted, brightness, dirExists, files,
          now, openHandles, pc, handler, current, camera, frame,
          resp, initial, overlapped>>

osVars == <<volume, muted, brightness>>
camVars == <<dirExists, files, now, openHandles>>

----------------------------------------------------------------------------
(* Bounds of the model *)

NumWorkers == 2
MaxClock == 1
MaxHandles == 1

Workers == 1..NumWorkers

----------------------------------------------------------------------------
(* Program constants, in model units *)

VolMax == 500
VolStep == 50
Hundredth == 5
BriMax == 100
BriStep == 10

Min(a, b) == IF a <= b THEN a ELSE b
Max(a, b) == IF a >= b THEN a ELSE b

NoValue == -1
NoFrame == "no frame"

\* what the camera can deliver: two distinguishable images
Frames == {"image A", "image B"}

----------------------------------------------------------------------------
(* Formatting *)

RECURSIVE IntToStr(_)
\* f"{n}" for a non-negative integer: its decimal digits
IntToStr(n) == IF n < 10 THEN <<n>> ELSE IntToStr(n \div 10) \o <<n % 10>>

RECURSIVE StrToInt(_)
\* the number a digit string denotes
StrToInt(s) ==
    IF s = <<>> THEN 0
    ELSE 10 * StrToInt(SubSeq(s, 1, Len(s) - 1)) + s[Len(s)]

\* f"{x:.2f}" for a scalar x in [0, 1]: rounds to the nearest hundredth and
\* prints the digits X.XX (the point is implied after the first digit)
Format2fTruncating(x) ==
    LET h == x \div Hundredth
    IN  <<h \div 100, (h \div 10) % 10, h % 10>>

Format2f(x) ==
    LET h == (2 * x + Hundredth) \div (2 * Hundredth)
    IN  <<h \div 100, (h \div 10) % 10, h % 10>>

\* datetime.now().strftime("%Y%m%d_%H%M%S"): the clock's whole seconds, as digits
strftime(t) == IntToStr(t)

----------------------------------------------------------------------------
(* Responses *)

Response(status, key, text, value) ==
    [status |-> status, key |-> key, text |-> text, value |-> value,
     available |-> FALSE, endpoints |-> {}]

NoResp == Response(0, "", "", <<>>)
Message(text, value) == Response(200, "message", text, value)
Error(status, text) == Response(status, "error", text, <<>>)

\* str(e) of an exception raised inside a platform library
ExcText == "exception raised by the library"
VolumeUnavailable == "Volume control not available on this platform"
BrightnessUnavailable == "Brightness control not available on this platform"

\* JSONResponse(content={"error": "Camera not accessible"}, status_code=500)
CameraNotAccessible == Error(500, "Camera not accessible")
\* JSONResponse(content={"error": "Failed to capture image"}, status_code=500)
CaptureFailedAs200 == Response(200, "error", "Failed to capture image", <<>>)
CaptureFailed == Error(500, "Failed to capture image")

----------------------------------------------------------------------------
(* The values the handlers compute *)

NewVolumeUpUnclamped(c) == c + VolStep
\* min(current + 0.1, 1.0)
NewVolumeUp(c) == Min(c + VolStep, VolMax)
\* max(current - 0.1, 0.0)
NewVolumeDown(c) == Max(c - VolStep, 0)
NewBrightnessUpByOne(c) == Min(c + 1, BriMax)
\* min(current + 10, 100)
NewBrightnessUp(c) == Min(c + BriStep, BriMax)
NewBrightnessDownUnclamped(c) == c - BriStep
\* max(current - 10, 0)
NewBrightnessDown(c) == Max(c - BriStep, 0)
MuteArgToggling == ~muted
\* volume.SetMute(1, None) / volume.SetMute(0, None)
MuteArg == TRUE
UnmuteArg == FALSE

VolumeInterfaceUnguarded(comOk) == IF comOk THEN "interface" ELSE "raised"

\* get_volume_interface(): "unavailable" when the flag is off, else the COM
\* calls either hand back the endpoint or raise
VolumeInterface(comOk) ==
    IF ~WINDOWS_LIBS_AVAILABLE THEN "unavailable"
    ELSE IF comOk THEN "interface" ELSE "raised"

\* the endpoints list root() builds
AvailableEndpoints ==
    {"/take_picture"} \cup
    (IF WINDOWS_LIBS_AVAILABLE
       THEN {"/volume/up", "/volume/down", "/volume/mute", "/volume/unmute",
             "/brightness/up", "/brightness/down"}
       ELSE {})

\* captured_images/captured_image_<timestamp>.jpg, named by its timestamp
Filename(timestamp) == timestamp

\* cv2.imwrite(filename, frame): stores the file when the directory exists
\* (replacing a file of that name), stores nothing and returns False otherwise
imwrite(filename, f) ==
    IF dirExists
      THEN {x \in files : x[1] # filename} \cup {<<filename, f>>}
      ELSE files

----------------------------------------------------------------------------
(* Steps shared by the handlers *)

Idle(w) == pc[w] = "idle"

\* a handler is entered: fresh locals, no response yet
Enter(w, h) ==
    /\ Idle(w)
    /\ handler' = [handler EXCEPT ![w] = h]
    /\ overlapped' = (overlapped \/ \E q \in Workers \ {w} : ~Idle(q))

FreshLocals(w) ==
    /\ current' = [current EXCEPT ![w] = NoValue]
    /\ camera' = [camera EXCEPT ![w] = "none"]
    /\ frame' = [frame EXCEPT ![w] = NoFrame]

Goto(w, label) ==
    /\ pc' = [pc EXCEPT ![w] = label]
    /\ resp' = [resp EXCEPT ![w] = NoResp]

\* the handler returns r
Return(w, r) ==
    /\ pc' = [pc EXCEPT ![w] = "idle"]
    /\ resp' = [resp EXCEPT ![w] = r]

Fixed == UNCHANGED <<WINDOWS_LIBS_AVAILABLE, initial>>
KeepLocals == UNCHANGED <<handler, current, camera, frame, overlapped>>

----------------------------------------------------------------------------
(* GET / *)

root(w) ==
    /\ Enter(w, "root")
    /\ FreshLocals(w)
    /\ Return(w, [status |-> 200, key |-> "message",
                  text |-> "Device Control API is running", value |-> <<>>,
                  available |-> WINDOWS_LIBS_AVAILABLE,
                  endpoints |-> AvailableEndpoints])
    /\ UNCHANGED <<osVars, camVars>>
    /\ Fixed

----------------------------------------------------------------------------
(* POST /volume/up, /volume/down *)

\* volume = get_volume_interface()
VolumeBegin(w, h) ==
    /\ Enter(w, h)
    /\ FreshLocals(w)
    /\ \E comOk \in BOOLEAN :
         LET got == VolumeInterface(comOk)
         IN  CASE got = "unavailable" -> Return(w, Error(500, VolumeUnavailable))
               [] got = "raised" -> Return(w, Error(500, ExcText))
               [] got = "interface" -> Goto(w, h \o "_read")
    /\ UNCHANGED <<osVars, camVars>>
    /\ Fixed

\* current = volume.GetMasterVolumeLevelScalar()
VolumeRead(w, h) ==
    /\ pc[w] = h \o "_read"
    /\ \/ /\ current' = [current EXCEPT ![w] = volume]
          /\ Goto(w, h \o "_write")
       \/ /\ Return(w, Error(500, ExcText))
          /\ UNCHANGED current
    /\ UNCHANGED <<osVars, camVars, handler, camera, frame, overlapped>>
    /\ Fixed

\* volume.SetMasterVolumeLevelScalar(new, None); return {"message": ...}
VolumeWrite(w, h, new, text) ==
    /\ pc[w] = h \o "_write"
    /\ \/ /\ volume' = new
          /\ Return(w, Message(text, Format2f(new)))
       \/ /\ Return(w, Error(500, ExcText))
          /\ UNCHANGED volume
    /\ UNCHANGED <<muted, brightness, camVars>>
    /\ KeepLocals
    /\ Fixed

volume_up(w) ==
    \/ VolumeBegin(w, "volume_up")
    \/ VolumeRead(w, "volume_up")
    \/ VolumeWrite(w, "volume_up", NewVolumeUp(current[w]),
                   "Volume increased to ")

volume_down(w) ==
    \/ VolumeBegin(w, "volume_down")
    \/ VolumeRead(w, "volume_down")
    \/ VolumeWrite(w, "volume_down", NewVolumeDown(current[w]),
                   "Volume decreased to ")

----------------------------------------------------------------------------
(* POST /volume/mute, /volume/unmute *)

\* volume.SetMute(arg, None); return {"message": text}
SetMute(w, h, arg, text) ==
    /\ pc[w] = h \o "_set"
    /\ \/ /\ muted' = arg
          /\ Return(w, Message(text, <<>>))
       \/ /\ Return(w, Error(500, ExcText))
          /\ UNCHANGED muted
    /\ UNCHANGED <<volume, brightness, camVars>>
    /\ KeepLocals
    /\ Fixed

MuteBegin(w, h) ==
    /\ Enter(w, h)
    /\ FreshLocals(w)
    /\ \E comOk \in BOOLEAN :
         LET got == VolumeInterface(comOk)
         IN  CASE got = "unavailable" -> Return(w, Error(500, VolumeUnavailable))
               [] got = "raised" -> Return(w, Error(500, ExcText))
               [] got = "interface" -> Goto(w, h \o "_set")
    /\ UNCHANGED <<osVars, camVars>>
    /\ Fixed

mute(w) ==
    \/ MuteBegin(w, "mute")
    \/ SetMute(w, "mute", MuteArg, "Volume muted")

unmute(w) ==
    \/ MuteBegin(w, "unmute")
    \/ SetMute(w, "unmute", UnmuteArg, "Volume unmuted")

----------------------------------------------------------------------------
(* POST /brightness/up, /brightness/down *)

\* if not WINDOWS_LIBS_AVAILABLE: return 501
BrightnessBegin(w, h) ==
    /\ Enter(w, h)
    /\ FreshLocals(w)
    /\ IF ~WINDOWS_LIBS_AVAILABLE
         THEN Return(w, Error(501, BrightnessUnavailable))
         ELSE Goto(w, h \o "_read")
    /\ UNCHANGED <<osVars, camVars>>
    /\ Fixed

\* current = sbc.get_brightness(display=0)[0]
BrightnessRead(w, h) ==
    /\ pc[w] = h \o "_read"
    /\ \/ /\ current' = [current EXCEPT ![w] = brightness]
          /\ Goto(w, h \o "_write")
       \/ /\ Return(w, Error(500, ExcText))
          /\ UNCHANGED current
    /\ UNCHANGED <<osVars, camVars, handler, camera, frame, overlapped>>
    /\ Fixed

\* sbc.set_brightness(new_brightness, display=0); return {"message": ...}
BrightnessWrite(w, h, new, text) ==
    /\ pc[w] = h \o "_write"
    /\ \/ /\ brightness' = new
          /\ Return(w, Message(text, IntToStr(new)))
       \/ /\ Return(w, Error(500, ExcText))
          /\ UNCHANGED brightness
    /\ UNCHANGED <<volume, muted, camVars>>
    /\ KeepLocals
    /\ Fixed

brightness_up(w) ==
    \/ BrightnessBegin(w, "brightness_up")
    \/ BrightnessRead(w, "brightness_up")
    \/ BrightnessWrite(w, "brightness_up", NewBrightnessUp(current[w]),
                       "Brightness increased to ")

brightness_down(w) ==
    \/ BrightnessBegin(w, "brightness_down")
    \/ BrightnessRead(w, "brightness_down")
    \/ BrightnessWrite(w, "brightness_down", NewBrightnessDown(current[w]),
                       "Brightness decreased to ")

----------------------------------------------------------------------------
(* POST /take_picture *)

\* The except clause: the handler returns 500 with str(e) and makes no call
\* to camera.release(). Whether the handle is closed anyway is left to the
\* interpreter's finalisation of the local `camera`.
ExceptWithOpenCamera(w) ==
    /\ Return(w, Error(500, ExcText))
    /\ \/ /\ UNCHANGED openHandles
          /\ UNCHANGED camera
       \/ /\ openHandles' = openHandles - 1
          /\ camera' = [camera EXCEPT ![w] = "finalized"]

\* camera = cv2.VideoCapture(0); if not camera.isOpened(): return 500
TakePictureOpen(w) ==
    /\ Enter(w, "take_picture")
    /\ current' = [current EXCEPT ![w] = NoValue]
    /\ frame' = [frame EXCEPT ![w] = NoFrame]
    /\ \/ /\ openHandles < MaxHandles
          /\ openHandles' = openHandles + 1
          /\ camera' = [camera EXCEPT ![w] = "open"]
          /\ Goto(w, "take_picture_read")
       \/ /\ camera' = [camera EXCEPT ![w] = "unopened"]
          /\ Return(w, CameraNotAccessible)
          /\ UNCHANGED openHandles
    /\ UNCHANGED <<osVars, dirExists, files, now>>
    /\ Fixed

\* ret, frame = camera.read(); if not ret: camera.release(); return 500
TakePictureRead(w) ==
    /\ pc[w] = "take_picture_read"
    /\ \/ /\ \E f \in Frames : frame' = [frame EXCEPT ![w] = f]
          /\ Goto(w, "take_picture_write")
          /\ UNCHANGED <<openHandles, camera>>
       \/ /\ openHandles' = openHandles - 1
          /\ camera' = [camera EXCEPT ![w] = "released"]
          /\ Return(w, CaptureFailed)
          /\ UNCHANGED frame
       \/ /\ ExceptWithOpenCamera(w)
          /\ UNCHANGED frame
    /\ UNCHANGED <<osVars, dirExists, files, now, handler, current, overlapped>>
    /\ Fixed

\* timestamp = ...; filename = ...; cv2.imwrite(filename, frame);
\* camera.release(); return {"message": ..., "file": filename}
TakePictureWrite(w) ==
    /\ pc[w] = "take_picture_write"
    /\ \/ LET filename == Filename(strftime(now))
          IN  /\ files' = imwrite(filename, frame[w])
              /\ openHandles' = openHandles - 1
              /\ camera' = [camera EXCEPT ![w] = "released"]
              /\ Return(w, Message("Picture taken successfully", filename))
       \/ /\ ExceptWithOpenCamera(w)
          /\ UNCHANGED files
    /\ UNCHANGED <<osVars, dirExists, now, handler, current, frame, overlapped>>
    /\ Fixed

take_picture(w) ==
    \/ TakePictureOpen(w)
    \/ TakePictureRead(w)
    \/ TakePictureWrite(w)

\* the wall clock advances
Tick ==
    /\ now < MaxClock
    /\ now' = now + 1
    /\ UNCHANGED <<osVars, dirExists, files, openHandles, pc,
                   handler, current, camera, frame, resp, overlapped>>
    /\ Fixed

----------------------------------------------------------------------------
(* Specifications *)

InitWith(flags, vols, mutes, bris, dirs) ==
    /\ WINDOWS_LIBS_AVAILABLE \in flags
    /\ volume \in vols
    /\ muted \in mutes
    /\ brightness \in bris
    /\ dirExists \in dirs
    /\ files = {}
    /\ now = 0
    /\ openHandles = 0
    /\ pc = [w \in Workers |-> "idle"]
    /\ handler = [w \in Workers |-> "none"]
    /\ current = [w \in Workers |-> NoValue]
    /\ camera = [w \in Workers |-> "none"]
    /\ frame = [w \in Workers |-> NoFrame]
    /\ resp = [w \in Workers |-> NoResp]
    /\ initial = [volume |-> volume, brightness |-> brightness]
    /\ overlapped = FALSE

Init == InitWith(BOOLEAN, {VolMax}, BOOLEAN, {BriMax}, BOOLEAN)

\* the server handling one request at a time, each run to completion
Serve(w) ==
    \/ root(w)
    \/ volume_up(w)
    \/ volume_down(w)
    \/ mute(w)
    \/ unmute(w)
    \/ brightness_up(w)
    \/ brightness_down(w)
    \/ take_picture(w)

Next == (\E w \in {1} : Serve(w)) \/ Tick

Spec == Init /\ [][Next]_vars

\* the same server started at levels off the handlers' step grid, within one
\* second of the clock
InitLevels == InitWith({TRUE}, {VolMax - 3}, {FALSE}, {BriMax - 5}, {TRUE})

NextLevels == \E w \in {1} : Serve(w)

SpecLevels == InitLevels /\ [][NextLevels]_vars

\* one client calling /volume/up and /volume/down, from every volume level
InitVolume == InitWith(BOOLEAN, 0..VolMax, {FALSE}, {BriMax}, {TRUE})

NextVolume == \E w \in {1} : volume_up(w) \/ volume_down(w)

SpecVolume == InitVolume /\ [][NextVolume]_vars

\* one client calling /brightness/up and /brightness/down, from every level
InitBrightness == InitWith(BOOLEAN, {VolMax}, {FALSE}, 0..BriMax, {TRUE})

NextBrightness == \E w \in {1} : brightness_up(w) \/ brightness_down(w)

SpecBrightness == InitBrightness /\ [][NextBrightness]_vars

\* every worker thread serves one "up" request; their calls interleave freely
InitRace ==
    InitWith({TRUE}, {0, 3, VolMax - VolStep - 3, VolMax}, {FALSE},
             {0, 5, BriMax - BriStep - 5, BriMax}, {TRUE})

NextRace ==
    \E w \in Workers :
        /\ handler[w] = "none" \/ ~Idle(w)
        /\ volume_up(w) \/ brightness_up(w)

SpecRace == InitRace /\ [][NextRace]_vars

----------------------------------------------------------------------------
(* Properties *)

InTakePicture(w) == pc[w] \in {"take_picture_read", "take_picture_write"}
Done(w, h) == Idle(w) /\ handler[w] = h
Succeeded(w, h) == Done(w, h) /\ resp[w].status = 200
Abs(x) == IF x < 0 THEN -x ELSE x

\* C1: whenever no take_picture request is in progress, the service holds no
\* open capture-device handle (every exit path released the one it opened).
C1_DeviceReleasedOnEveryExit ==
    (\A w \in Workers : ~InTakePicture(w)) => openHandles = 0

\* C2: after any sequence of completed requests the OS volume is within
\* [0.0, 1.0] and the brightness within [0, 100].
C2_LevelsInRange ==
    /\ volume \in 0..VolMax
    /\ brightness \in 0..BriMax

\* a request pushed against either end of a range and was clamped
C2_Witness ==
    \/ \E w \in Workers :
         /\ Succeeded(w, "volume_up")
         /\ current[w] + VolStep > VolMax
         /\ volume = VolMax
    \/ \E w \in Workers :
         /\ Succeeded(w, "brightness_down")
         /\ current[w] - BriStep < 0
         /\ brightness = 0

\* what a volume request run alone leaves behind, by the handler h that ran,
\* the level `new` it had to write and the message it had to give
VolumeOutcome(w, h, new, text) ==
    /\ pc[w] = h \o "_write" => current[w] = volume
    /\ Done(w, h) /\ WINDOWS_LIBS_AVAILABLE =>
         \/ /\ resp[w].status = 200
            /\ volume = new
            /\ resp[w].key = "message"
            /\ resp[w].text = text
         \/ /\ resp[w] = Error(500, ExcText)
            /\ current[w] \in {NoValue, volume}

VolumeWritten(w) ==
    /\ VolumeOutcome(w, "volume_up",
         IF current[w] + VolStep <= VolMax THEN current[w] + VolStep ELSE VolMax,
         "Volume increased to ")
    /\ VolumeOutcome(w, "volume_down",
         IF current[w] - VolStep >= 0 THEN current[w] - VolStep ELSE 0,
         "Volume decreased to ")

VolumeReported(w) == StrToInt(resp[w].value) * Hundredth

\* C3 as stated: a volume request run alone from level v writes min(v+0.10, 1.0)
\* (up) or max(v-0.10, 0.0) (down), answers 200, and the X.XX of its message
\* is exactly the level written.
C3_ReportsExactlyWritten ==
    \A w \in Workers :
        /\ VolumeWritten(w)
        /\ (Succeeded(w, "volume_up") \/ Succeeded(w, "volume_down")) =>
             VolumeReported(w) = volume

\* C3 amended: as above, but the X.XX of the message is the level written
\* rounded to the nearest hundredth.
C3_ReportsWrittenRounded ==
    \A w \in Workers :
        /\ VolumeWritten(w)
        /\ (Succeeded(w, "volume_up") \/ Succeeded(w, "volume_down")) =>
             2 * Abs(VolumeReported(w) - volume) < Hundredth

\* an increase from a level that is no whole number of hundredths, reported
\* rounded up
C3_Witness ==
    \E w \in Workers :
        /\ Succeeded(w, "volume_up")
        /\ volume = current[w] + VolStep
        /\ VolumeReported(w) > volume

BrightnessOutcome(w, h, new, text) ==
    /\ pc[w] = h \o "_write" => current[w] = brightness
    /\ Done(w, h) /\ WINDOWS_LIBS_AVAILABLE =>
         \/ /\ resp[w].status = 200
            /\ brightness = new
            /\ resp[w].key = "message"
            /\ resp[w].text = text
            /\ StrToInt(resp[w].value) = brightness
         \/ /\ resp[w] = Error(500, ExcText)
            /\ current[w] \in {NoValue, brightness}

\* C4: with brightness control available, a brightness request run alone from
\* level b writes min(b+10, 100) (up) or max(b-10, 0) (down), answers 200 and
\* reports the written value as N%; if the read or the write raises, the
\* answer is 500 with the error text, never 501.
C4_BrightnessStep ==
    \A w \in Workers :
        /\ BrightnessOutcome(w, "brightness_up",
             IF current[w] + BriStep <= BriMax THEN current[w] + BriStep ELSE BriMax,
             "Brightness increased to ")
        /\ BrightnessOutcome(w, "brightness_down",
             IF current[w] - BriStep >= 0 THEN current[w] - BriStep ELSE 0,
             "Brightness decreased to ")

\* a decrease clamped at 0 from a level below one step
C4_Witness ==
    \E w \in Workers :
        /\ Succeeded(w, "brightness_down")
        /\ current[w] \in 1..(BriStep - 1)
        /\ brightness = 0

\* C5: with the capability flag off, GET / reports the flag as false and lists
\* only /take_picture, brightness requests answer 501, volume and mute
\* requests answer 500 with the unavailable message, and no request reads or
\* writes the OS volume, mute flag or brightness.
C5_UnavailablePlatform ==
    ~WINDOWS_LIBS_AVAILABLE =>
        /\ volume = initial.volume
        /\ brightness = initial.brightness
        /\ \A w \in Workers :
             \* no handler gets as far as a read or a set of the OS state
             /\ current[w] = NoValue
             /\ Idle(w) \/ InTakePicture(w)
             /\ Done(w, "root") =>
                  /\ resp[w].status = 200
                  /\ resp[w].available = FALSE
                  /\ resp[w].endpoints = {"/take_picture"}
             /\ Done(w, "brightness_up") \/ Done(w, "brightness_down") =>
                  resp[w] = Error(501, BrightnessUnavailable)
             /\ \/ Done(w, "volume_up")
                \/ Done(w, "volume_down")
                \/ Done(w, "mute")
                \/ Done(w, "unmute")
                => resp[w] = Error(500, VolumeUnavailable)

\* a volume request answered on a platform without the libraries
C5_Witness ==
    /\ ~WINDOWS_LIBS_AVAILABLE
    /\ \E w \in Workers : Done(w, "volume_up") /\ resp[w].status = 500

MuteStep(w, h) == pc[w] = h \o "_set" /\ pc'[w] = "idle" /\ resp'[w].status = 200

\* C6: a successful Mute leaves the mute flag true and a successful Unmute
\* leaves it false, whatever it was before (so Mute;Mute = Mute and
\* Unmute;Unmute = Unmute); nothing else changes the flag, and no step of a
\* mute or unmute request changes the volume or the brightness.
C6_MuteIsSet ==
    [][ /\ \A w \in Workers :
             /\ MuteStep(w, "mute") => muted'
             /\ MuteStep(w, "unmute") => ~muted'
             /\ handler'[w] \in {"mute", "unmute"} /\ pc'[w] # pc[w] =>
                  volume' = volume /\ brightness' = brightness
        /\ muted' # muted =>
             \E w \in Workers : MuteStep(w, "mute") \/ MuteStep(w, "unmute")
      ]_vars

\* an Unmute answered 200, after volume and brightness requests had moved
\* both levels
C6_Witness ==
    \E w \in Workers :
        /\ Succeeded(w, "unmute")
        /\ ~muted
        /\ volume # initial.volume
        /\ brightness # initial.brightness

\* C7: a take_picture whose device does not open answers 500 "Camera not
\* accessible", one whose read yields no frame answers 500 "Failed to capture
\* image", and neither changes the files on disk: files change only in the
\* imwrite step of a request that got a frame.
C7_FailedCaptureWritesNothing ==
    [][ /\ \A w \in Workers :
             /\ Idle(w) /\ handler'[w] = "take_picture" /\ camera'[w] = "unopened" =>
                  /\ resp'[w] = Error(500, "Camera not accessible")
                  /\ pc'[w] = "idle"
                  /\ files' = files
             /\ pc[w] = "take_picture_read" /\ camera'[w] = "released" =>
                  /\ resp'[w] = Error(500, "Failed to capture image")
                  /\ pc'[w] = "idle"
                  /\ files' = files
        /\ files' # files =>
             \E w \in Workers : pc[w] = "take_picture_write" /\ frame[w] \in Frames
      ]_vars

\* a request whose read gave no frame has answered, with a file of an earlier
\* capture still on disk
C7_Witness ==
    \E w \in Workers :
        /\ Done(w, "take_picture")
        /\ camera[w] = "released"
        /\ frame[w] = NoFrame
        /\ files # {}

\* C8: whenever take_picture has answered with the success body, the file the
\* body names is on disk and holds the frame that request captured.
C8_SuccessMeansStored ==
    \A w \in Workers :
        Succeeded(w, "take_picture") =>
            <<resp[w].value, frame[w]>> \in files

\* C9: requests that run one after the other move each level by one clamped
\* step per successful request; two whose calls interleave can both answer 200
\* and move it by a single step (C9_LostIncrement).
C9_SequentialStepsAddUp ==
    ~overlapped =>
        /\ volume = Min(initial.volume + VolStep *
               Cardinality({w \in Workers : Succeeded(w, "volume_up")}), VolMax)
        /\ brightness = Min(initial.brightness + BriStep *
               Cardinality({w \in Workers : Succeeded(w, "brightness_up")}), BriMax)

\* two interleaved increases, both answered 200, one step gained in all
C9_LostIncrement ==
    /\ overlapped
    /\ \A w \in Workers : Idle(w)
    /\ Cardinality({w \in Workers : Succeeded(w, "volume_up")}) >= 2
    /\ initial.volume + 2 * VolStep <= VolMax
    /\ volume = initial.volume + VolStep

\* C10: a file written by a capture is never replaced or removed by a later
\* capture.
C10_NeverOverwritten ==
    [][\A x \in files : x \in files']_vars

====
